---- MODULE Spec2Model ----
(***************************************************************************)
(* Model of scripts/python/split_md_for_mkdocs.py.                         *)
(*                                                                         *)
(* Text is a sequence of characters, each character a one-character        *)
(* string.  A fixed literal of the script that no regular expression of    *)
(* the script can match inside (a line of the generated mkdocs.yml, the    *)
(* NOTICE text, the welcome line) is carried as one multi-character        *)
(* element: it behaves like a run of ordinary non-space, non-word          *)
(* characters.                                                             *)
(*                                                                         *)
(* The filesystem is a function from paths (texts, relative to the working *)
(* directory) to file contents, plus the set of directories the script     *)
(* creates or needs (docs, docs/src).                                      *)
(***************************************************************************)
EXTENDS Integers, Sequences, FiniteSets, TLC

VARIABLES
    fs,        \* path -> content, the regular files below the working directory
    dirs,      \* directories among {docs, docs/src} that exist
    pc,        \* position of main(): idle, split, config, index, notice, done, crashed
    nav_items, \* main's local nav_items (result of split_markdown)
    runs,      \* number of runs of main() started
    chapters,  \* trace of split_markdown's loop in this run: one record per retained chapter
    imglog,    \* trace of copy_and_update_image calls in this run
    written,   \* paths written with open(..., 'w') in this run
    prev,      \* the filesystem at the end of the previous completed run (or NoRun)
    srcSame,   \* the source document is unchanged since the previous run ended
    start,     \* the filesystem when this run started
    arg,       \* pure-function harness: the input
    parts,     \* pure-function harness: how the input was built
    ret,       \* pure-function harness: the result
    ret2,      \* pure-function harness: the result of applying the function to ret
    fpc        \* pure-function harness: position

vars == <<fs, dirs, pc, nav_items, runs, chapters, imglog, written, prev, srcSame,
          start, arg, parts, ret, ret2, fpc>>
mainVars == <<fs, dirs, pc, nav_items, runs, chapters, imglog, written, prev, srcSame, start>>
funVars == <<arg, parts, ret, ret2, fpc>>

----------------------------------------------------------------------------
(* Characters *)

UpperLetters == <<"A","B","C","D","E","F","G","H","I","J","K","L","M",
                  "N","O","P","Q","R","S","T","U","V","W","X","Y","Z">>
LowerLetters == <<"a","b","c","d","e","f","g","h","i","j","k","l","m",
                  "n","o","p","q","r","s","t","u","v","w","x","y","z">>
Digits == {"0","1","2","3","4","5","6","7","8","9"}

Range(s) == {s[i] : i \in 1..Len(s)}

\* \s of the re module, str.strip(), str.isspace()
IsSpace(c) == c \in {" ", "\t", "\n"}

\* \w of the re module
WordChars == Range(UpperLetters) \cup Range(LowerLetters) \cup Digits \cup {"_"}
IsWord(c) == c \in WordChars

\* str.lower() on one character
ToLower(c) ==
    IF c \in Range(UpperLetters)
    THEN LowerLetters[CHOOSE i \in 1..26 : UpperLetters[i] = c]
    ELSE c

Lower(s) == [i \in 1..Len(s) |-> ToLower(s[i])]

Min(S) == CHOOSE x \in S : \A y \in S : x <= y
Max(S) == CHOOSE x \in S : \A y \in S : x >= y

\* s[i:] for a 1-based i
From(s, i) == SubSeq(s, i, Len(s))

\* the number of consecutive positions of s, from position i on, that are in the
\* set ok of positions
Run(s, i, ok) ==
    IF i > Len(s) THEN 0
    ELSE IF i..Len(s) \subseteq ok THEN Len(s) - i + 1
    ELSE Min((i..Len(s)) \ ok) - i

\* length of the run of whitespace that starts at position i of s
SpaceRun(s, i) == Run(s, i, {j \in 1..Len(s) : IsSpace(s[j])})

\* length of the run of the character c that starts at position i of s
CharRun(s, i, c) == Run(s, i, {j \in 1..Len(s) : s[j] = c})

\* length of the run of characters outside the set stop that starts at position i
RunUntil(s, i, stop) == Run(s, i, {j \in 1..Len(s) : s[j] \notin stop})

\* str.lstrip()
LStrip(s) == From(s, 1 + SpaceRun(s, 1))

\* str.rstrip()
RStrip(s) ==
    IF \A j \in 1..Len(s) : IsSpace(s[j]) THEN <<>>
    ELSE SubSeq(s, 1, Max({j \in 1..Len(s) : ~IsSpace(s[j])}))

\* str.strip()
Strip(s) == RStrip(LStrip(s))

\* s.startswith(p)
StartsWith(s, p) == Len(p) <= Len(s) /\ SubSeq(s, 1, Len(p)) = p

\* s.endswith(p)
EndsWith(s, p) == Len(p) <= Len(s) /\ SubSeq(s, Len(s) - Len(p) + 1, Len(s)) = p

\* s[i:i+len(p)] == p
At(s, i, p) == i + Len(p) - 1 <= Len(s) /\ SubSeq(s, i, i + Len(p) - 1) = p

----------------------------------------------------------------------------
(* slugify *)

\* re.sub(r'\s+', '-', text): the first character of a run of whitespace becomes
\* the hyphen and the rest of the run (marked "") is dropped
SpaceRunsToHyphen(s) ==
    SelectSeq([j \in 1..Len(s) |->
                  IF ~IsSpace(s[j]) THEN s[j]
                  ELSE IF j > 1 /\ IsSpace(s[j - 1]) THEN "" ELSE "-"],
              LAMBDA c : c # "")

\* re.sub(r'[^\w\-]', '', text)
DropNonWord(s) == SelectSeq(s, LAMBDA c : IsWord(c) \/ c = "-")

\* a slugify that forgets the whitespace-to-hyphen step
slugify_nohyphen(text) == DropNonWord(Strip(Lower(text)))

\* a slugify that forgets to drop the other characters
slugify_nofilter(text) == SpaceRunsToHyphen(Strip(Lower(text)))

slugify(text) == DropNonWord(SpaceRunsToHyphen(Strip(Lower(text))))

----------------------------------------------------------------------------
(* Regular-expression steps.  Each takes the position i where the step starts *)
(* (0 when an earlier step failed) and gives the position after it, or 0.     *)

\* #{1,6}
Hashes16(s, i) ==
    IF i > 0 /\ CharRun(s, i, "#") \in 1..6 THEN i + CharRun(s, i, "#") ELSE 0

\* \s+
Spaces1(s, i) == IF i > 0 /\ SpaceRun(s, i) >= 1 THEN i + SpaceRun(s, i) ELSE 0

\* \s*
Spaces0(s, i) == IF i > 0 THEN i + SpaceRun(s, i) ELSE 0

\* a literal p
Literal(s, i, p) == IF i > 0 /\ At(s, i, p) THEN i + Len(p) ELSE 0

\* [^stop]*
Until0(s, i, stop) == IF i > 0 THEN i + RunUntil(s, i, stop) ELSE 0

\* [^stop]+
Until1(s, i, stop) ==
    IF i > 0 /\ RunUntil(s, i, stop) >= 1 THEN i + RunUntil(s, i, stop) ELSE 0

----------------------------------------------------------------------------
(* process_heading_line *)

AnchorOpen == <<"<", "a">>
AnchorName == <<"n", "a", "m", "e", "=", "\"">>
AnchorClose == <<"\"", ">", "<", "/", "a", ">">>

\* r'^(#{1,6}\s+)(<a\s+name="([^"]+)"></a>)(.*)': the positions after group 1,
\* at the start and the end of group 3, and at the start of group 4.  Every
\* quantifier is followed by a character it cannot match, so the greedy runs are
\* the only candidates.
HeadingPrefixEnd(line) == Spaces1(line, Hashes16(line, 1))

AnchorNameStart(line) ==
    Literal(line, Spaces1(line, Literal(line, HeadingPrefixEnd(line), AnchorOpen)),
            AnchorName)

AnchorNameEnd(line) == Until1(line, AnchorNameStart(line), {"\""})

AnchorRestStart(line) == Literal(line, AnchorNameEnd(line), AnchorClose)

HeadingGroups(line, a, b, c, d) ==
    IF d > 0
    THEN [matched |-> TRUE,
          header_prefix |-> SubSeq(line, 1, a - 1),
          anchor_name |-> SubSeq(line, b, c - 1),
          rest |-> SubSeq(line, d, d - 1 + RunUntil(line, d, {"\n"}))]
    ELSE [matched |-> FALSE]

\* m = re.match(...)
HeadingAnchorMatch(line) ==
    HeadingGroups(line, HeadingPrefixEnd(line), AnchorNameStart(line),
                  AnchorNameEnd(line), AnchorRestStart(line))

\* f"{header_prefix}{rest} {{#{anchor_name}}}", rest already replaced by the
\* anchor name when empty
HeadingWithId(header_prefix, anchor_name, rest) ==
    header_prefix \o (IF rest = <<>> THEN anchor_name ELSE rest)
        \o <<" ", "{", "#">> \o anchor_name \o <<"}">>

\* the body of process_heading_line without the .strip() of group 4
FormatHeading_nostrip(line, m) ==
    IF m.matched THEN HeadingWithId(m.header_prefix, m.anchor_name, m.rest) ELSE line

\* the body of process_heading_line after the match
FormatHeading(line, m) ==
    IF m.matched
    THEN HeadingWithId(m.header_prefix, m.anchor_name, Strip(m.rest))
    ELSE line

process_heading_line(line) == FormatHeading(line, HeadingAnchorMatch(line))

----------------------------------------------------------------------------
(* Paths and the filesystem *)

SOURCE == <<"C", "p", "p", "C", "o", "r", "e", "G", "u", "i", "d", "e", "l", "i", "n", "e", "s", ".", "m", "d">>
DOCS == <<"d", "o", "c", "s">>
DOCS_SRC == <<"d", "o", "c", "s", "/", "s", "r", "c">>
INDEX_MD == <<"d", "o", "c", "s", "/", "i", "n", "d", "e", "x", ".", "m", "d">>
NOTICE_MD == <<"d", "o", "c", "s", "/", "N", "O", "T", "I", "C", "E", ".", "m", "d">>
MKDOCS_YML == <<"m", "k", "d", "o", "c", "s", ".", "y", "m", "l">>

\* os.path.join(a, b) for a relative b
Join(a, b) == a \o <<"/">> \o b

\* os.path.basename(path)
Basename(path) ==
    IF \E i \in 1..Len(path) : path[i] = "/"
    THEN From(path, 1 + Max({i \in 1..Len(path) : path[i] = "/"}))
    ELSE path

\* the filesystem f with content c at path p
Put(f, p, c) == [q \in DOMAIN f \cup {p} |-> IF q = p THEN c ELSE f[q]]

\* os.path.exists(path): a regular file, one of the directories, or the base
\* directory itself (the empty relative path)
Exists(w, path) == path \in DOMAIN w.fs \/ path \in w.dirs \/ path = <<>>

IsDir(w, path) == path \in w.dirs \/ path = <<>>

\* os.makedirs(path, exist_ok=True) for docs and docs/src
MakeDirs(d, path) == IF path = DOCS_SRC THEN d \cup {DOCS, DOCS_SRC} ELSE d \cup {path}

----------------------------------------------------------------------------
(* copy_and_update_image, fix_links_and_images *)

\* re.sub(r'^(?:\./|\.\./)+', '', path)
RECURSIVE StripDotSegments(_)
StripDotSegments(path) ==
    IF StartsWith(path, <<".", "/">>) THEN StripDotSegments(From(path, 3))
    ELSE IF StartsWith(path, <<".", ".", "/">>) THEN StripDotSegments(From(path, 4))
    ELSE path

\* path.startswith("http") or path.startswith("/")
IsRemoteOrAbsolute(path) ==
    StartsWith(path, <<"h", "t", "t", "p">>) \/ StartsWith(path, <<"/">>)

\* The world w of the substitution: the filesystem fs, the directories dirs, the
\* trace log of the calls and the output text out so far.

\* return match.group(0), with the call recorded
KeepReference(m, w, path, source, outcome) ==
    [w EXCEPT !.out = @ \o m.whole,
              !.log = Append(@, [path |-> path, source |-> source, outcome |-> outcome])]

\* a copy that is skipped when the destination is already there
CopyExisting_once(m, w, path, source_path, base) ==
    IF Join(DOCS_SRC, base) \in DOMAIN w.fs
    THEN [w EXCEPT !.out = @ \o m.prefix \o <<"s", "r", "c", "/">> \o base \o m.suffix,
                   !.log = Append(@, [path |-> path, source |-> source_path,
                                      outcome |-> "present"])]
    ELSE [w EXCEPT !.out = @ \o m.prefix \o <<"s", "r", "c", "/">> \o base \o m.suffix,
                   !.dirs = MakeDirs(@, DOCS_SRC),
                   !.fs = Put(@, Join(DOCS_SRC, base), w.fs[source_path]),
                   !.log = Append(@, [path |-> path, source |-> source_path,
                                      outcome |-> "copied"])]

\* lines 44-55: the source exists; base is os.path.basename(source_path).
\* shutil.copy2 raises for a directory (IsADirectoryError) and for a source that
\* is the destination (SameFileError); the except clause returns the reference.
CopyExisting(m, w, path, source_path, base) ==
    IF IsDir(w, source_path) \/ source_path = Join(DOCS_SRC, base)
    THEN KeepReference(m, [w EXCEPT !.dirs = MakeDirs(@, DOCS_SRC)],
                       path, source_path, "error")
    ELSE [w EXCEPT !.out = @ \o m.prefix \o <<"s", "r", "c", "/">> \o base \o m.suffix,
                   !.dirs = MakeDirs(@, DOCS_SRC),
                   !.fs = Put(@, Join(DOCS_SRC, base), w.fs[source_path]),
                   !.log = Append(@, [path |-> path, source |-> source_path,
                                      outcome |-> "copied"])]

\* lines 38-42: source_path is the normalized path resolved against base_dir.
\* base_dir is the working directory in both callers
\* (dirname(abspath('CppCoreGuidelines.md')) and os.getcwd()), and paths are
\* relative to it.
CopyLocal(m, w, path, source_path) ==
    IF ~Exists(w, source_path)
    THEN KeepReference(m, w, path, source_path, "missing")
    ELSE CopyExisting(m, w, path, source_path, Basename(source_path))

\* lines 35-38: path is match.group(2).strip()
CopyImage(m, w, path) ==
    IF IsRemoteOrAbsolute(path)
    THEN KeepReference(m, w, path, <<>>, "untouched")
    ELSE CopyLocal(m, w, path, StripDotSegments(path))

\* The callback of the image substitution: the world with the replacement
\* appended to out.
copy_and_update_image(m, w) == CopyImage(m, w, Strip(m.path))

\* r'(!\[[^\]]*\]\()([^\s\)]+)([^\)]*\))' at position i: the positions of the
\* start of group 2, after group 2 and after the match
ImagePathStart(s, i) ==
    Literal(s, Until0(s, Literal(s, i, <<"!", "[">>), {"]"}), <<"]", "(">>)

ImagePathEnd(s, i) == Until1(s, ImagePathStart(s, i), {" ", "\t", "\n", ")"})

ImageEnd(s, i) == Literal(s, Until0(s, ImagePathEnd(s, i), {")"}), <<")">>)

ImageGroups(s, i, k, l, e) ==
    IF e > 0
    THEN [matched |-> TRUE, after |-> e,
          prefix |-> SubSeq(s, i, k - 1),
          path |-> SubSeq(s, k, l - 1),
          suffix |-> SubSeq(s, l, e - 1),
          whole |-> SubSeq(s, i, e - 1)]
    ELSE [matched |-> FALSE]

ImageMatchAt(s, i) ==
    ImageGroups(s, i, ImagePathStart(s, i), ImagePathEnd(s, i), ImageEnd(s, i))

\* the position of the leftmost match of the image pattern at or after i, or 0
NextImage(s, i) ==
    IF \A j \in i..Len(s) : ImageEnd(s, j) = 0 THEN 0
    ELSE Min({j \in i..Len(s) : ImageEnd(s, j) > 0})

\* re.sub(image pattern, callback, content), scanning s from position i: the
\* text up to the next match at j is copied, the match is handed to the callback
RECURSIVE SubImages(_, _, _)
SubImagesFrom(s, i, w, j) ==
    IF j = 0
    THEN [w EXCEPT !.out = @ \o From(s, i)]
    ELSE SubImages(s, ImageEnd(s, j),
                   copy_and_update_image(ImageMatchAt(s, j),
                                         [w EXCEPT !.out = @ \o SubSeq(s, i, j - 1)]))

SubImages(s, i, w) == SubImagesFrom(s, i, w, NextImage(s, i))

\* r'\(\s*/#' at position i: the position after the match
AnchorLinkEnd(s, i) == Literal(s, Spaces0(s, Literal(s, i, <<"(">>)), <<"/", "#">>)

\* the position of the leftmost match of r'\(\s*/#' at or after i, or 0
NextAnchorLink(s, i) ==
    IF \A j \in i..Len(s) : AnchorLinkEnd(s, j) = 0 THEN 0
    ELSE Min({j \in i..Len(s) : AnchorLinkEnd(s, j) > 0})

\* re.sub(r'\(\s*/#', r'(#', content), scanning s from position i
RECURSIVE SubAnchorLinks(_, _)
SubAnchorLinksFrom(s, i, j) ==
    IF j = 0 THEN From(s, i)
    ELSE SubSeq(s, i, j - 1) \o <<"(", "#">> \o SubAnchorLinks(s, AnchorLinkEnd(s, j))

SubAnchorLinks(s, i) == SubAnchorLinksFrom(s, i, NextAnchorLink(s, i))

WithAnchorLinks(r) == [r EXCEPT !.out = SubAnchorLinks(r.out, 1)]

\* The world after the copies, with the fixed content in out.
fix_links_and_images(content, w) ==
    WithAnchorLinks(SubImages(content, 1, [w EXCEPT !.out = <<>>]))

----------------------------------------------------------------------------
(* split_markdown *)

\* str.splitlines() / "\n".join(): the lines of s, for the line terminator "\n"
RECURSIVE SplitLines(_)
SplitLines(s) ==
    IF s = <<>> THEN <<>>
    ELSE LET e == RunUntil(s, 1, {"\n"})
         IN  <<SubSeq(s, 1, e)>> \o SplitLines(From(s, e + 2))

RECURSIVE JoinLines(_)
JoinLines(lines) ==
    IF lines = <<>> THEN <<>>
    ELSE IF Len(lines) = 1 THEN lines[1]
    ELSE lines[1] \o <<"\n">> \o JoinLines(Tail(lines))

\* the lookahead (?=^#\s) with re.MULTILINE holds at position i
IsChapterStart(s, i) ==
    /\ i = 1 \/ s[i - 1] = "\n"
    /\ s[i] = "#"
    /\ i + 1 <= Len(s) /\ IsSpace(s[i + 1])

\* the pieces of s from position from on, cut at the positions cuts
RECURSIVE SplitAt(_, _, _)
SplitAt(s, from, cuts) ==
    IF cuts = {} THEN <<From(s, from)>>
    ELSE <<SubSeq(s, from, Min(cuts) - 1)>> \o SplitAt(s, Min(cuts), cuts \ {Min(cuts)})

\* re.split(r'(?=^#\s)', content, flags=re.MULTILINE)
SplitChapters(s) == SplitAt(s, 1, {i \in 1..Len(s) : IsChapterStart(s, i)})

\* re.sub(r'\s*\{\#.*\}$', '', full_heading): the leftmost match starts at the
\* whitespace before the first "{#" and runs to a final "}"
StripAnchorId(t) ==
    LET opens == {i \in 1..Len(t) : At(t, i, <<"{", "#">>) /\ i + 2 <= Len(t)}
        first == CHOOSE i \in opens : \A j \in opens : i <= j
    IN  IF t # <<>> /\ t[Len(t)] = "}" /\ opens # {}
        THEN RStrip(SubSeq(t, 1, first - 1))
        ELSE t

\* the title of a chapter from its first line:
\* re.match(r'^#{1,6}\s+(.*)', line), strip, drop the anchor id, strip
ChapterTitle(line) ==
    LET h == CharRun(line, 1, "#")
        w == SpaceRun(line, h + 1)
    IN  IF h \in 1..6 /\ w >= 1
        THEN Strip(StripAnchorId(Strip(From(line, h + w + 1))))
        ELSE <<"U", "n", "t", "i", "t", "l", "e", "d">>

\* f"{slugify(title)}.md"
ChapterFilename(title) == slugify(title) \o <<".", "m", "d">>

\* The loop over the pieces.  st carries the filesystem, nav_items, the flag
\* first, the set of files written and the trace of the chapters.

\* lines 137-149: the chapter text is written to index.md or to its own file
WriteChapter(st, text, title, file) ==
    [st EXCEPT
        !.fs = Put(@, file, text \o <<"\n">>),
        !.first = FALSE,
        !.nav_items = IF st.first THEN @ ELSE Append(@, <<title, ChapterFilename(title)>>),
        !.written = @ \cup {file},
        !.chapters = Append(@, [title |-> title, file |-> file, text |-> text,
                                home |-> st.first])]

\* the file of a chapter: index.md for the first one
ChapterFile(first, title) ==
    IF first THEN INDEX_MD ELSE Join(DOCS, ChapterFilename(title))

\* lines 130-135
TitledChapter(st, text, title) == WriteChapter(st, text, title, ChapterFile(st.first, title))

\* lines 127-128: line0 is the processed first line
HeadedChapter(st, chapter_lines, line0) ==
    TitledChapter(st, JoinLines(<<line0>> \o Tail(chapter_lines)), ChapterTitle(line0))

\* lines 125-127
ChapterOfLines(st, chapter_lines) ==
    HeadedChapter(st, chapter_lines, process_heading_line(chapter_lines[1]))

\* lines 121-123: chapter is the stripped piece
ChapterOf(st, chapter) ==
    IF chapter = <<>> THEN st ELSE ChapterOfLines(st, SplitLines(chapter))

RECURSIVE SplitLoop(_, _)
SplitLoop(st, pieces) ==
    IF pieces = <<>> THEN st
    ELSE SplitLoop(ChapterOf(st, Strip(pieces[1])), Tail(pieces))

\* what split_markdown leaves and returns: fixed is the world after
\* fix_links_and_images, st the state after the loop
SplitResult(fixed, st) ==
    [fs |-> st.fs, dirs |-> fixed.dirs, log |-> fixed.log,
     nav_items |-> st.nav_items, written |-> st.written, chapters |-> st.chapters]

\* lines 116-151
SplitFixed(fixed) ==
    SplitResult(fixed,
                SplitLoop([fs |-> fixed.fs, first |-> TRUE, nav_items |-> <<>>,
                           written |-> {}, chapters |-> <<>>],
                          SplitChapters(fixed.out)))

\* split_markdown() on the world w: the world afterwards, the returned nav_items
\* and the traces
split_markdown(w) ==
    IF SOURCE \notin DOMAIN w.fs
    THEN [fs |-> w.fs, dirs |-> w.dirs, log |-> w.log, nav_items |-> <<>>,
          written |-> {}, chapters |-> <<>>]
    ELSE SplitFixed(fix_links_and_images(w.fs[SOURCE],
                                         [w EXCEPT !.dirs = MakeDirs(@, DOCS)]))

----------------------------------------------------------------------------
(* update_mkdocs_config *)

\* the fixed lines of the generated configuration, one element per line
ConfigFixedLines == <<
    <<"site_name: C++ Core Guidelines">>,
    <<"repo_url: https://github.com/xxrjun/CppCoreGuidelines">>,
    <<"repo_name: xxrjun/CppCoreGuidelines">>,
    <<"theme:">>,
    <<"  name: material">>,
    <<"  palette:">>,
    <<"    - scheme: default">>,
    <<"      primary: indigo">>,
    <<"      accent: indigo">>,
    <<"      toggle:">>,
    <<"        icon: material/brightness-7">>,
    <<"        name: Switch to dark mode">>,
    <<"    - scheme: slate">>,
    <<"      primary: indigo">>,
    <<"      accent: indigo">>,
    <<"      toggle:">>,
    <<"        icon: material/brightness-4">>,
    <<"        name: Switch to light mode">>,
    <<"  features:">>,
    <<"    - content.code.copy">>,
    <<>>,
    <<"markdown_extensions:">>,
    <<"  - toc:">>,
    <<"      permalink: true">>,
    <<"      toc_depth: 3">>,
    <<"  - pymdownx.highlight:">>,
    <<"      anchor_linenums: true">>,
    <<"      line_spans: __span">>,
    <<"      pygments_lang_class: true">>,
    <<"  - pymdownx.inlinehilite">>,
    <<"  - pymdownx.snippets">>,
    <<"  - pymdownx.superfences">>,
    <<>>,
    <<"plugins:">>,
    <<"  - search">>,
    <<"  - open-in-new-tab">>,
    <<"  - with-pdf:">>,
    <<>>,
    <<"nav:">>,
    <<"  - Home: index.md">>,
    <<"  - NOTICE: NOTICE.md">> >>

\* f"  - '{title}': {filename}"
NavLine(item) == <<" ", " ", "-", " ", "'">> \o item[1] \o <<"'", ":", " ">> \o item[2]

\* a configuration whose chapter entries are in reverse order
ConfigContent_reversed(items) ==
    JoinLines(ConfigFixedLines
              \o [i \in 1..Len(items) |-> NavLine(items[Len(items) + 1 - i])]) \o <<"\n">>

\* the content written: "\n".join(lines) + "\n"
ConfigContent(items) ==
    JoinLines(ConfigFixedLines \o [i \in 1..Len(items) |-> NavLine(items[i])]) \o <<"\n">>

\* an update_mkdocs_config without the existence check
update_mkdocs_config_overwrite(items, f) == Put(f, MKDOCS_YML, ConfigContent(items))

\* update_mkdocs_config(nav_items) on the filesystem f
update_mkdocs_config(items, f) ==
    IF MKDOCS_YML \in DOMAIN f THEN f ELSE Put(f, MKDOCS_YML, ConfigContent(items))

----------------------------------------------------------------------------
(* update_index_md, create_notice_md *)

HEADING == <<"#", " ", "C", "+", "+", " ", "C", "o", "r", "e", " ", "G", "u", "i", "d", "e", "l", "i", "n", "e", "s">>
WELCOME == <<"Welcome to C++ Core Guidelines!">>
NOTICE_CONTENT == <<"# NOTICE ... contact the maintainers for further assistance.\n">>

\* lines 234-235
WithHeading(content) ==
    IF StartsWith(LStrip(content), HEADING)
    THEN content
    ELSE HEADING \o <<"\n", "\n">> \o content

\* lines 234-237: r is the world after fix_links_and_images
IndexRewritten(r) ==
    [fs |-> Put(r.fs, INDEX_MD, WithHeading(r.out)), dirs |-> r.dirs, log |-> r.log,
     raised |-> FALSE]

\* update_index_md() on the world w; raised is TRUE when open() raises
\* FileNotFoundError because docs/ does not exist
update_index_md(w) ==
    IF INDEX_MD \in DOMAIN w.fs
    THEN IndexRewritten(fix_links_and_images(w.fs[INDEX_MD], w))
    ELSE IF DOCS \notin w.dirs
    THEN [fs |-> w.fs, dirs |-> w.dirs, log |-> w.log, raised |-> TRUE]
    ELSE [fs |-> Put(w.fs, INDEX_MD, HEADING \o <<"\n", "\n">> \o WELCOME),
          dirs |-> w.dirs, log |-> w.log, raised |-> FALSE]

\* create_notice_md() on the world w
create_notice_md(w) ==
    IF NOTICE_MD \in DOMAIN w.fs
    THEN [fs |-> w.fs, wrote |-> FALSE, raised |-> FALSE]
    ELSE IF DOCS \notin w.dirs
    THEN [fs |-> w.fs, wrote |-> FALSE, raised |-> TRUE]
    ELSE [fs |-> Put(w.fs, NOTICE_MD, NOTICE_CONTENT), wrote |-> TRUE, raised |-> FALSE]

----------------------------------------------------------------------------
(* Inputs *)

MaxLines == 3   \* lines of a generated source document
MaxRuns == 2    \* runs of main()
MaxLen == 3     \* characters of a slugify input
MaxHashes == 7  \* '#' characters of a heading line
MaxTrail == 3   \* characters of the text after a heading's anchor

\* all texts over the characters cs of length at most n
RECURSIVE Texts(_, _)
Texts(cs, n) ==
    IF n = 0 THEN {<<>>}
    ELSE LET shorter == Texts(cs, n - 1)
         IN  shorter \cup {Append(t, c) : t \in shorter, c \in cs}

\* ![](path)
ImageRef(path) == <<"!", "[", "]", "(">> \o path \o <<")">>

A_PNG == <<"a", ".", "p", "n", "g">>
HTTPA_PNG == <<"h", "t", "t", "p", "a", ".", "p", "n", "g">>

\* the lines the generated documents are made of
LineVocabulary == {
    <<"#", " ", "A">>,
    <<"#", " ", "I", "n", "d", "e", "x">>,
    ImageRef(A_PNG),
    ImageRef(HTTPA_PNG),
    <<"(", " ", "/", "#", "A", ")">> }

Titles == {
    <<"I", "n", "t", "r", "o", "d", "u", "c", "t", "i", "o", "n">>,
    <<"I", "n", ",", " ", "t", "r", "o", "d", "u", "c", "t", "i", "o", "n", "!">>,
    <<"I", "n", " ", "t", "r", "o", "d", "u", "c", "t", "i", "o", "n">> }

H1(title) == <<"#", " ">> \o title

\* a home chapter followed by two titled chapters
TitleDocuments ==
    {JoinLines(<<H1(<<"A">>), H1(t1), H1(t2)>>) \o <<"\n">> : t1 \in Titles, t2 \in Titles}

\* documents with one line of interest each
SpecialDocuments == {
    ImageRef(NOTICE_MD),
    ImageRef(<<"f", "t", "p", ":", "/", "/", "h", "/", "a", ".", "p", "n", "g">>),
    ImageRef(<<"/", "a", ".", "p", "n", "g">>),
    ImageRef(<<"h", "t", "t", "p", ":", "/", "/", "h", "/", "a", ".", "p", "n", "g">>),
    ImageRef(<<".", "/", "a", ".", "p", "n", "g">>) \o <<"\n">> \o H1(<<"B">>),
    JoinLines(<<
        <<"#", " ", "<", "a", " ", "n", "a", "m", "e", "=", "\"", "S", "\"", ">", "<", "/", "a", ">", " ", "I", "n", "t", "r", "o">>,
        <<"(", "/", "#", "S", ")">>,
        <<"#", " ", "<", "a", " ", "n", "a", "m", "e", "=", "\"", "T", "\"", ">", "<", "/", "a", ">">>,
        <<"t", "e", "x", "t">> >>) }

GeneratedDocuments == {JoinLines(ls) : ls \in Texts(LineVocabulary, MaxLines)}

Documents == GeneratedDocuments \cup TitleDocuments \cup SpecialDocuments

\* the documents an edit between two runs can put in place
EditDocuments == {
    JoinLines(<<H1(<<"A">>), H1(<<"B">>)>>),
    ImageRef(A_PNG) }

EmptyFs == [p \in {} |-> <<>>]

\* the image files beside the source document
Assets == Put(Put(EmptyFs, A_PNG, <<"image a.png">>), HTTPA_PNG, <<"image httpa.png">>)

OLD_CONFIG == <<"site_name: an earlier configuration\n">>

Remove(f, p) == [q \in DOMAIN f \ {p} |-> f[q]]

----------------------------------------------------------------------------
(* main *)

World == [fs |-> fs, dirs |-> dirs, log |-> imglog, out |-> <<>>]

\* the pure-function harness is not in use
FunOff == arg = <<>> /\ parts = <<>> /\ ret = <<>> /\ ret2 = <<>> /\ fpc = "off"

Init ==
    /\ \E hasSource \in BOOLEAN, hasConfig \in BOOLEAN, hasDocs \in BOOLEAN :
        /\ \E d \in Documents :
            fs = LET f1 == IF hasSource THEN Put(Assets, SOURCE, d) ELSE Assets
                 IN  IF hasConfig THEN Put(f1, MKDOCS_YML, OLD_CONFIG) ELSE f1
        /\ dirs = IF hasDocs THEN {DOCS} ELSE {}
    /\ pc = "idle"
    /\ nav_items = <<>>
    /\ runs = 0
    /\ chapters = <<>>
    /\ imglog = <<>>
    /\ written = {}
    /\ prev = [ok |-> FALSE, fs |-> EmptyFs]
    /\ srcSame = FALSE
    /\ start = EmptyFs
    /\ FunOff

\* main() is entered
StartRun ==
    /\ pc = "idle"
    /\ runs < MaxRuns
    /\ pc' = "split"
    /\ runs' = runs + 1
    /\ start' = fs
    /\ nav_items' = <<>>
    /\ chapters' = <<>>
    /\ imglog' = <<>>
    /\ written' = {}
    /\ UNCHANGED <<fs, dirs, prev, srcSame, funVars>>

\* nav_items = split_markdown()
SplitReturns(r) ==
    /\ fs' = r.fs
    /\ dirs' = r.dirs
    /\ imglog' = r.log
    /\ nav_items' = r.nav_items
    /\ chapters' = r.chapters
    /\ written' = r.written

SplitMarkdown ==
    /\ pc = "split"
    /\ SplitReturns(split_markdown(World))
    /\ pc' = "config"
    /\ UNCHANGED <<runs, prev, srcSame, start, funVars>>

\* if nav_items: update_mkdocs_config(nav_items) else: print(...)
MainConfig(items, f) == IF items # <<>> THEN update_mkdocs_config(items, f) ELSE f

ConfigStep ==
    /\ pc = "config"
    /\ fs' = MainConfig(nav_items, fs)
    /\ written' = IF fs' # fs THEN written \cup {MKDOCS_YML} ELSE written
    /\ pc' = "index"
    /\ UNCHANGED <<dirs, nav_items, runs, chapters, imglog, prev, srcSame, start, funVars>>

\* update_index_md()
IndexReturns(r) ==
    /\ fs' = r.fs
    /\ dirs' = r.dirs
    /\ imglog' = r.log
    /\ pc' = IF r.raised THEN "crashed" ELSE "notice"
    /\ written' = IF r.raised THEN written ELSE written \cup {INDEX_MD}

UpdateIndexMd ==
    /\ pc = "index"
    /\ IndexReturns(update_index_md(World))
    /\ UNCHANGED <<nav_items, runs, chapters, prev, srcSame, start, funVars>>

\* create_notice_md()
NoticeReturns(r) ==
    /\ fs' = r.fs
    /\ pc' = IF r.raised THEN "crashed" ELSE "done"
    /\ written' = IF r.wrote THEN written \cup {NOTICE_MD} ELSE written

CreateNoticeMd ==
    /\ pc = "notice"
    /\ NoticeReturns(create_notice_md(World))
    /\ UNCHANGED <<dirs, nav_items, runs, chapters, imglog, prev, srcSame, start, funVars>>

\* the process ends, normally or with the uncaught exception
Exit ==
    /\ pc \in {"done", "crashed"}
    /\ pc' = "idle"
    /\ prev' = [ok |-> pc = "done", fs |-> fs]
    /\ srcSame' = TRUE
    /\ UNCHANGED <<fs, dirs, nav_items, runs, chapters, imglog, written, start, funVars>>

\* between two runs the source document is replaced
EditSource ==
    /\ pc = "idle"
    /\ runs \in 1..(MaxRuns - 1)
    /\ \E d \in EditDocuments :
        /\ IF SOURCE \in DOMAIN fs THEN fs[SOURCE] # d ELSE TRUE
        /\ fs' = Put(fs, SOURCE, d)
    /\ srcSame' = FALSE
    /\ UNCHANGED <<dirs, pc, nav_items, runs, chapters, imglog, written, prev, start, funVars>>

\* between two runs the source document is deleted
DeleteSource ==
    /\ pc = "idle"
    /\ runs \in 1..(MaxRuns - 1)
    /\ SOURCE \in DOMAIN fs
    /\ fs' = Remove(fs, SOURCE)
    /\ srcSame' = FALSE
    /\ UNCHANGED <<dirs, pc, nav_items, runs, chapters, imglog, written, prev, start, funVars>>

Next ==
    \/ StartRun
    \/ SplitMarkdown
    \/ ConfigStep
    \/ UpdateIndexMd
    \/ CreateNoticeMd
    \/ Exit
    \/ EditSource
    \/ DeleteSource

Spec == Init /\ [][Next]_vars

----------------------------------------------------------------------------
(* slugify and process_heading_line on their own *)

\* main() is not running
MainOff ==
    /\ fs = EmptyFs /\ dirs = {} /\ pc = "off" /\ nav_items = <<>> /\ runs = 0
    /\ chapters = <<>> /\ imglog = <<>> /\ written = {}
    /\ prev = [ok |-> FALSE, fs |-> EmptyFs] /\ srcSame = FALSE /\ start = EmptyFs

SlugCharacters == {"I", "n", " ", "\t", "-", "!", "_"}

InitSlug ==
    /\ MainOff
    /\ arg \in Texts(SlugCharacters, MaxLen)
    /\ parts = <<>>
    /\ ret = <<>>
    /\ ret2 = <<>>
    /\ fpc = "call"

\* ret = slugify(arg)
Slugify ==
    /\ fpc = "call"
    /\ ret' = slugify(arg)
    /\ fpc' = "again"
    /\ UNCHANGED <<arg, parts, ret2, mainVars>>

\* ret2 = slugify(ret)
SlugifyAgain ==
    /\ fpc = "again"
    /\ ret2' = slugify(ret)
    /\ fpc' = "done"
    /\ UNCHANGED <<arg, parts, ret, mainVars>>

NextSlug == Slugify \/ SlugifyAgain

SpecSlug == InitSlug /\ [][NextSlug]_vars

Gaps == {<<" ">>, <<"\t", " ">>}
AnchorIds == {<<"S">>, <<"S", "-", "i">>}
TrailCharacters == {"A", " ", "\t"}

\* <a name="id"></a>
AnchorTag(id) == AnchorOpen \o <<" ">> \o AnchorName \o id \o AnchorClose

\* the part of a heading line up to the anchor: the '#' run and the whitespace
HeadingMarker(p) == [i \in 1..p.hashes |-> "#"] \o p.gap

\* the heading line built from the parts p
HeadingLine(p) ==
    HeadingMarker(p) \o (IF p.anchor THEN AnchorTag(p.id) ELSE <<>>) \o p.trail

InitHeading ==
    /\ MainOff
    /\ parts \in [hashes : 1..MaxHashes, gap : Gaps, anchor : BOOLEAN,
                  id : AnchorIds, trail : Texts(TrailCharacters, MaxTrail)]
    /\ arg = HeadingLine(parts)
    /\ ret = <<>>
    /\ ret2 = <<>>
    /\ fpc = "call"

\* ret = process_heading_line(arg)
ProcessHeadingLine ==
    /\ fpc = "call"
    /\ ret' = process_heading_line(arg)
    /\ fpc' = "done"
    /\ UNCHANGED <<arg, parts, ret2, mainVars>>

NextHeading == ProcessHeadingLine

SpecHeading == InitHeading /\ [][NextHeading]_vars

----------------------------------------------------------------------------
(* Properties *)

RunEnded == pc \in {"done", "crashed"}

\* C1: when the source document does not exist at the start of a run, the run
\* ends without an exception and has created or modified no file.
MissingInputNoSideEffects ==
    (RunEnded /\ SOURCE \notin DOMAIN start)
        => (pc = "done" /\ fs = start /\ written = {})

\* C2: a run that follows a completed run, with the source document unchanged,
\* completes, leaves docs/index.md and every chapter file as the first run left
\* them, and writes neither mkdocs.yml nor docs/NOTICE.md.
SecondRunIdempotent ==
    (RunEnded /\ prev.ok /\ srcSame)
        => /\ pc = "done"
           /\ MKDOCS_YML \notin written
           /\ NOTICE_MD \notin written
           /\ \A p \in written : p \in DOMAIN prev.fs /\ fs[p] = prev.fs[p]

\* C3: once mkdocs.yml exists, no step of the tool (and no edit of the source
\* document between runs) changes its content.
ConfigNeverChanged ==
    [][(MKDOCS_YML \in DOMAIN fs)
          => (MKDOCS_YML \in DOMAIN fs' /\ fs[MKDOCS_YML] = fs'[MKDOCS_YML])]_vars

\* a second run produced navigation entries other than those of the mkdocs.yml
\* that an earlier run created, and left the file alone
ConfigKeptWitness ==
    /\ pc = "index" /\ runs >= 2 /\ nav_items # <<>>
    /\ MKDOCS_YML \in DOMAIN fs
    /\ fs[MKDOCS_YML] # OLD_CONFIG
    /\ fs[MKDOCS_YML] # ConfigContent(nav_items)

\* the nav list of a configuration: the lines after the line "nav:"
NavOf(content) ==
    LET ls == SplitLines(content)
    IN  SubSeq(ls, 1 + Min({i \in 1..Len(ls) : ls[i] = <<"nav:">>}), Len(ls))

\* mkdocs.yml exists and its nav list is the two fixed entries followed by one
\* entry per non-home chapter of this run, in order
ConfigListsChapters ==
    /\ MKDOCS_YML \in DOMAIN fs
    /\ NavOf(fs[MKDOCS_YML]) =
          <<<<"  - Home: index.md">>, <<"  - NOTICE: NOTICE.md">>>>
          \o [i \in 1..(Len(chapters) - 1) |->
                 NavLine(<<chapters[i + 1].title, Basename(chapters[i + 1].file)>>)]

FreshConfigRun ==
    pc = "done" /\ SOURCE \in DOMAIN start /\ MKDOCS_YML \notin DOMAIN start

Copies(p) ==
    Cardinality({i \in 1..Len(imglog) :
                    imglog[i].outcome = "copied" /\ imglog[i].source = p})

References(doc, p) ==
    LET ls == SplitLines(doc)
    IN  Cardinality({i \in 1..Len(ls) :
                        ls[i] \in {ImageRef(p), ImageRef(<<".", "/">> \o p)}})

INTRODUCTION == <<"I", "n", "t", "r", "o", "d", "u", "c", "t", "i", "o", "n">>
IN_TRODUCTION == <<"I", "n", ",", " ", "t", "r", "o", "d", "u", "c", "t", "i", "o", "n", "!">>
INTRODUCTION_MD == Join(DOCS, <<"i", "n", "t", "r", "o", "d", "u", "c", "t", "i", "o", "n", ".", "m", "d">>)
IN_TRODUCTION_MD == Join(DOCS, <<"i", "n", "-", "t", "r", "o", "d", "u", "c", "t", "i", "o", "n", ".", "m", "d">>)

\* chapters i and j of this run are non-home chapters titled "Introduction" and
\* "In, troduction!", in this order
IntroductionPair(i, j) ==
    /\ i \in 1..Len(chapters) /\ j \in 1..Len(chapters)
    /\ ~chapters[i].home /\ ~chapters[j].home
    /\ chapters[i].title = INTRODUCTION /\ chapters[j].title = IN_TRODUCTION

Holds(c) == c.file \in DOMAIN fs /\ fs[c.file] = c.text \o <<"\n">>

\* C6 as stated: "Introduction" and "In, troduction!" are both written to
\* in-troduction.md, which holds the later of the two chapters.
IntroductionTitlesCollide ==
    pc = "config" =>
        \A i, j \in 1..Len(chapters) :
            IntroductionPair(i, j) =>
                /\ chapters[i].file = IN_TRODUCTION_MD
                /\ chapters[j].file = IN_TRODUCTION_MD
                /\ Holds(chapters[IF i < j THEN j ELSE i])

\* C6 amended: "Introduction" is written to introduction.md and "In, troduction!"
\* to in-troduction.md, each file holding its own chapter; and whenever chapters
\* do share a file, the file holds the last of them.
ChaptersLastWriteWins ==
    pc = "config" =>
        /\ \A i, j \in 1..Len(chapters) :
              IntroductionPair(i, j) =>
                  /\ chapters[i].file = INTRODUCTION_MD
                  /\ chapters[j].file = IN_TRODUCTION_MD
                  /\ Holds(chapters[i]) /\ Holds(chapters[j])
        /\ \A i \in 1..Len(chapters) :
              (\A j \in (i + 1)..Len(chapters) : chapters[j].file # chapters[i].file)
                  => Holds(chapters[i])

IntroductionPairWitness ==
    pc = "config" /\ \E i, j \in 1..Len(chapters) : IntroductionPair(i, j)

\* C7: slugify(slugify(t)) = slugify(t), and slugify(t) holds only word
\* characters and hyphens.
SlugifyIdempotent ==
    fpc = "done" =>
        /\ ret2 = ret
        /\ \A i \in 1..Len(ret) : IsWord(ret[i]) \/ ret[i] = "-"

SlugifyWitness == fpc = "done" /\ ret # <<>> /\ ret # arg /\ "-" \in Range(ret)

\* the line is '#' x 1..6, whitespace, an anchor and a non-empty trailing text
AnchoredHeading ==
    fpc = "done" /\ parts.anchor /\ parts.hashes <= 6 /\ parts.trail # <<>>

\* {#id}
IdAnnotation(id) == <<"{", "#">> \o id \o <<"}">>

\* t occurs in s
Contains(s, t) == \E i \in 1..(Len(s) - Len(t) + 1) : SubSeq(s, i, i + Len(t) - 1) = t

\* C8 as stated: the result ends with {#ID} and holds the trailing text,
\* character for character, between the heading marker and the annotation.
HeadingKeepsTrailVerbatim ==
    AnchoredHeading =>
        /\ EndsWith(ret, IdAnnotation(parts.id))
        /\ StartsWith(ret, HeadingMarker(parts))
        /\ Contains(SubSeq(ret, Len(HeadingMarker(parts)) + 1,
                           Len(ret) - Len(IdAnnotation(parts.id))),
                    parts.trail)

\* C8 amended: the result is the heading marker, then the trailing text without
\* its leading and trailing whitespace (the ID when nothing is left), then one
\* space and {#ID}.
HeadingKeepsStrippedTrail ==
    AnchoredHeading =>
        ret = HeadingMarker(parts)
              \o (IF \A i \in 1..Len(parts.trail) : IsSpace(parts.trail[i])
                  THEN parts.id
                  ELSE SubSeq(parts.trail,
                              Min({i \in 1..Len(parts.trail) : ~IsSpace(parts.trail[i])}),
                              Max({i \in 1..Len(parts.trail) : ~IsSpace(parts.trail[i])})))
              \o <<" ">> \o IdAnnotation(parts.id)

HeadingStrippedWitness ==
    /\ AnchoredHeading
    /\ IsSpace(parts.trail[1]) /\ IsSpace(parts.trail[Len(parts.trail)])
    /\ \E i \in 1..Len(parts.trail) : ~IsSpace(parts.trail[i])

\* the path begins with a URL scheme: a letter, then letters, digits, '+', '-'
\* or '.', then ':'
HasUrlScheme(path) ==
    \E i \in 2..Len(path) :
        /\ path[i] = ":"
        /\ path[1] \in Range(UpperLetters) \cup Range(LowerLetters)
        /\ \A j \in 2..(i - 1) : IsWord(path[j]) \/ path[j] \in {"+", "-", "."}

\* C9: a reference is returned untouched, without a look at the filesystem,
\* exactly when its path begins with a URL scheme or with '/'; every other
\* reference is resolved against the base directory.
LocalIffNoSchemeNorSlash ==
    \A i \in 1..Len(imglog) :
        (HasUrlScheme(imglog[i].path) \/ StartsWith(imglog[i].path, <<"/">>))
            <=> imglog[i].outcome = "untouched"

\* C10: when split_markdown returns with a retained chapter, docs/index.md holds
\* the first retained chapter and no navigation entry names index.md.
FirstChapterIsHome ==
    (pc = "config" /\ chapters # <<>>)
        => /\ fs[INDEX_MD] = chapters[1].text \o <<"\n">>
           /\ \A k \in 1..Len(nav_items) :
                 nav_items[k][2] # <<"i", "n", "d", "e", "x", ".", "m", "d">>

====
